---- MODULE Spec2Model ----
(***************************************************************************)
(* Model of the binny-buddy-ai backend: the Response Extractor             *)
(* (parse_gemini_response), the POST /detect endpoint, and the generated   *)
(* asset directory (POST /assets/create, GET /asset/).                     *)
(*                                                                         *)
(* Abstractions.  A response text is a sequence of tokens: the single      *)
(* characters "[", "]", "{", "}", ",", a whitespace character " ", a       *)
(* prose character "x" that is part of no JSON value, and whole JSON       *)
(* object literals "{...}" carrying their decoded key/value content.       *)
(* A confidence is written in the text as a decimal string and converted   *)
(* to hundredths when validated as a float.                                *)
(***************************************************************************)
EXTENDS Integers, Sequences, FiniteSets, TLC

VARIABLES
    response,      \* parse: the GenerateContentResponse handed to the extractor
    parsed,        \* parse: result of parse_gemini_response, or Pending
    pc,            \* detect: position of the request handler
    image,         \* detect: what the uploaded file is
    apiCalls,      \* detect: number of calls made to the external API
    apiResult,     \* detect: what the external API call produced
    httpResponse,  \* detect: responses sent to the client, in order
    dirExists,     \* assets: whether app/assets/created exists
    files,         \* assets: filename -> content of the directory
    creates,       \* assets: number of POST /assets/create handled
    lastOp         \* assets: the last asset request and its answer

vars == <<response, parsed, pc, image, apiCalls, apiResult, httpResponse,
          dirExists, files, creates, lastOp>>

parseVars == <<response, parsed>>
detectVars == <<pc, image, apiCalls, apiResult, httpResponse>>
assetVars == <<dirExists, files, creates, lastOp>>

----------------------------------------------------------------------------
(* Bounds *)

MaxLen == 5        \* longest free-form response text, in tokens
MaxArr == 2        \* longest JSON array the external API returns
MaxCreates == 3    \* asset creations per behaviour
MaxTs == 2         \* distinct clock readings of datetime.now()

----------------------------------------------------------------------------
(* Data model: app/models/detection.py, app/models/asset.py *)

None == "None"

PlasticType == {"cup", "bottle", "container"}
WasteStatus == {"clean", "dirty"}
AssetType == {"texture", "accessory"}

CONFIDENCE_THRESHOLD == 60   \* 0.6, in hundredths

Keys == {"label", "confidence", "status", "how_to_recycle", "box_2d"}

\* values the external API may write under each key of an element
FullElems ==
    [label : {"cup", "dog"},
     confidence : {"0.59", "0.6"},
     status : {"clean"},
     how_to_recycle : {"rinse"},
     box_2d : {"box", None}]

Restrict(f, K) == [k \in K |-> f[k]]

\* which keys a decoded JSON object may carry: all, all but some of the
\* fields, or none
KeySets ==
    {Keys, Keys \ {"box_2d"}, Keys \ {"how_to_recycle"},
     Keys \ {"how_to_recycle", "box_2d"}, Keys \ {"status"},
     Keys \ {"confidence"}, {}}

\* decoded JSON objects
Elements == {Restrict(f, K) : f \in FullElems, K \in KeySets}

\* float(): the decimal strings used, in hundredths; anything else is no number
IsNumber(s) == s \in {"0.59", "0.6", "0.9"}
Float(s) == CASE s = "0.59" -> 59
              [] s = "0.6" -> 60
              [] s = "0.9" -> 90
              [] OTHER -> 0

\* label, confidence, status have no default; neither has box_2d, whose
\* Optional type only admits null as a value
RequiredKeys == {"label", "confidence", "status", "box_2d"}

\* DetectedObject validation of one decoded element
Validates(e) ==
    /\ RequiredKeys \subseteq DOMAIN e
    /\ e["label"] \in PlasticType
    /\ IsNumber(e["confidence"])
    /\ e["status"] \in WasteStatus

\* the DetectedObject built from an element that validates
DetectedObject(e) ==
    [label |-> e["label"],
     confidence |-> Float(e["confidence"]),
     status |-> e["status"],
     how_to_recycle |-> IF "how_to_recycle" \in DOMAIN e THEN e["how_to_recycle"] ELSE None,
     box_2d |-> IF "box_2d" \in DOMAIN e THEN e["box_2d"] ELSE None]

----------------------------------------------------------------------------
(* Response texts *)

Tok(c) == [t |-> c]
Obj(e) == [t |-> "{}", e |-> e]

IsWs(tok) == tok.t = " "
OpensBrace(tok) == tok.t \in {"{", "{}"}
ClosesBrace(tok) == tok.t \in {"}", "{}"}

\* json.dumps of an array of objects, as the API emits it
RECURSIVE Encode(_)
Encode(arr) ==
    IF arr = <<>> THEN <<>>
    ELSE IF Len(arr) = 1 THEN <<Obj(arr[1])>>
    ELSE <<Obj(arr[1]), Tok(",")>> \o Encode(Tail(arr))

EncodeArray(arr) == <<Tok("[")>> \o Encode(arr) \o <<Tok("]")>>

SeqsUpTo(S, n) == UNION {[1..k -> S] : k \in 0..n}

FreeTokens ==
    {Tok(c) : c \in {"[", "]", "{", "}", ",", " ", "x"}}
        \cup {Obj([label |-> "cup", confidence |-> "0.6", status |-> "clean",
                   how_to_recycle |-> "rinse", box_2d |-> "box"])}

FreeTexts == SeqsUpTo(FreeTokens, MaxLen)
ArrayTexts == {EncodeArray(arr) : arr \in SeqsUpTo(Elements, MaxArr)}

\* a GenerateContentResponse: candidates / content / parts / text
Responses ==
    {[kind |-> k, text |-> <<>>] :
        k \in {"no_candidates", "no_content", "no_parts", "no_text"}}
        \cup {[kind |-> "text", text |-> t] : t \in FreeTexts \cup ArrayTexts}

----------------------------------------------------------------------------
(* re.search(r"\[\s*\{.*\}\s*\]", text, re.DOTALL) *)

AllWs(text, a, b) == \A k \in a..b : IsWs(text[k])

\* "[" \s* "{" can be matched starting at position i
HeadAt(text, i) ==
    /\ text[i].t = "["
    /\ \E p \in (i+1)..Len(text) : AllWs(text, i+1, p-1) /\ OpensBrace(text[p])

BracePos(text, i) ==
    CHOOSE p \in (i+1)..Len(text) : AllWs(text, i+1, p-1) /\ OpensBrace(text[p])

\* "}" \s* "]" can end at position j when the opening brace is at p
TailAt(text, p, j) ==
    /\ text[j].t = "]"
    /\ \E q \in p..(j-1) :
          /\ ClosesBrace(text[q])
          /\ (q = p => text[q].t = "{}")
          /\ AllWs(text, q+1, j-1)

MatchesAt(text, i) ==
    /\ HeadAt(text, i)
    /\ \E j \in (i+1)..Len(text) : TailAt(text, BracePos(text, i), j)

HasMatch(text) == \E i \in 1..Len(text) : MatchesAt(text, i)

\* leftmost start, and the greedy ".*" takes the furthest end
MatchStart(text) ==
    CHOOSE i \in 1..Len(text) :
        MatchesAt(text, i) /\ \A k \in 1..(i-1) : ~MatchesAt(text, k)

MatchEnd(text) ==
    LET i == MatchStart(text)
        p == BracePos(text, i)
    IN CHOOSE j \in (i+1)..Len(text) :
        TailAt(text, p, j) /\ \A k \in (j+1)..Len(text) : ~TailAt(text, p, k)

MatchGroup(text) == SubSeq(text, MatchStart(text), MatchEnd(text))

----------------------------------------------------------------------------
(* json.loads of the matched group *)

JsonFail == [ok |-> FALSE, v |-> <<>>]

RECURSIVE Items(_)
Items(r) ==
    IF r = <<>> THEN JsonFail
    ELSE LET isObj == r[1].t = "{}"
             isEmptyObj == r[1].t = "{" /\ Len(r) >= 2 /\ r[2].t = "}"
             e == IF isObj THEN r[1].e ELSE Restrict(<<>>, {})
             rest == IF isObj THEN SubSeq(r, 2, Len(r)) ELSE SubSeq(r, 3, Len(r))
         IN IF ~(isObj \/ isEmptyObj) THEN JsonFail
            ELSE IF rest = <<>> THEN [ok |-> TRUE, v |-> <<e>>]
            ELSE IF rest[1].t # "," THEN JsonFail
            ELSE LET more == Items(Tail(rest))
                 IN IF more.ok THEN [ok |-> TRUE, v |-> <<e>> \o more.v]
                    ELSE JsonFail

json_loads(toks) ==
    LET s == SelectSeq(toks, LAMBDA tok : ~IsWs(tok))
    IN IF Len(s) < 2 \/ s[1].t # "[" \/ s[Len(s)].t # "]" THEN JsonFail
       ELSE IF Len(s) = 2 THEN [ok |-> TRUE, v |-> <<>>]
       ELSE Items(SubSeq(s, 2, Len(s) - 1))

----------------------------------------------------------------------------
(* parse_gemini_response *)

Pending == [state |-> "pending"]

\* a validation that drops the failing elements and keeps the others
validate_python_per_element(objects_list) ==
    [ok |-> TRUE,
     v |-> LET good == SelectSeq(objects_list, Validates)
           IN [i \in 1..Len(good) |-> DetectedObject(good[i])]]

\* TypeAdapter(List[DetectedObject]).validate_python: the whole list or an error
validate_python(objects_list) ==
    IF \A i \in 1..Len(objects_list) : Validates(objects_list[i])
    THEN [ok |-> TRUE,
          v |-> [i \in 1..Len(objects_list) |-> DetectedObject(objects_list[i])]]
    ELSE [ok |-> FALSE, v |-> <<>>]

\* a filter that also drops a confidence equal to the threshold
AboveThresholdStrict(obj) == obj.confidence > CONFIDENCE_THRESHOLD

\* obj.confidence >= CONFIDENCE_THRESHOLD
AboveThreshold(obj) == obj.confidence >= CONFIDENCE_THRESHOLD

\* lines 77-95: the try block, any exception leaves detected_objects empty
ParseText(response_text) ==
    IF ~HasMatch(response_text) THEN <<>>
    ELSE LET objects_list == json_loads(MatchGroup(response_text))
         IN IF ~objects_list.ok THEN <<>>
            ELSE LET parsed_objects == validate_python(objects_list.v)
                 IN IF ~parsed_objects.ok THEN <<>>
                    ELSE SelectSeq(parsed_objects.v, AboveThreshold)

\* an extractor that uses the match without the "if json_match" test and
\* outside the try block
parse_gemini_response_no_match_check(resp) ==
    CASE resp.kind \in {"no_candidates", "no_parts"} ->
            [raised |-> FALSE, objects |-> <<>>]
      [] resp.kind = "no_content" ->
            [raised |-> TRUE, objects |-> <<>>]
      [] resp.kind = "no_text" ->
            [raised |-> TRUE, objects |-> <<>>]
      [] OTHER ->
            [raised |-> ~HasMatch(resp.text), objects |-> ParseText(resp.text)]

\* result: raised (exception escapes) and the returned list
parse_gemini_response(resp) ==
    CASE resp.kind \in {"no_candidates", "no_parts"} ->
            [raised |-> FALSE, objects |-> <<>>]
      [] resp.kind = "no_content" ->      \* candidates[0].content is None: line 73
            [raised |-> TRUE, objects |-> <<>>]
      [] resp.kind = "no_text" ->         \* parts[0].text is None: re.search raises, caught
            [raised |-> FALSE, objects |-> <<>>]
      [] OTHER ->
            [raised |-> FALSE, objects |-> ParseText(resp.text)]

----------------------------------------------------------------------------
(* Specification of the extractor as a pure function *)

InitIdleDetect ==
    /\ pc = "idle" /\ image = "none" /\ apiCalls = 0
    /\ apiResult = [kind |-> "none"] /\ httpResponse = <<>>

InitIdleAssets ==
    /\ dirExists = FALSE /\ files = [n \in {} |-> ""] /\ creates = 0
    /\ lastOp = [op |-> "none"]

InitParse ==
    /\ response \in Responses
    /\ parsed = Pending
    /\ InitIdleDetect
    /\ InitIdleAssets

Parse ==
    /\ parsed = Pending
    /\ parsed' = parse_gemini_response(response)
    /\ UNCHANGED <<response, detectVars, assetVars>>

NextParse == Parse

SpecParse == InitParse /\ [][NextParse]_vars

----------------------------------------------------------------------------
(* POST /detect: app/main.py detect_image, app/services/gemini_service.py *)

\* an upload: whether reading it works, the format its header decodes to
\* (None when PIL cannot identify it) and whether the data verifies
Images ==
    [readable : BOOLEAN,
     format : {"jpeg", "png", "bmp", "gif", None},
     intact : BOOLEAN]

get_image_format(img) == img.format

validate_image(img) ==
    /\ get_image_format(img) \in {"jpeg", "png", "jpg", "bmp"}
    /\ img.intact

\* what the external API returns to POST /detect
ApiElems == {Restrict(f, K) : f \in FullElems, K \in {Keys, Keys \ {"box_2d"}}}

ApiResults ==
    {[kind |-> k, text |-> <<>>] :
        k \in {"raise", "no_candidates", "no_content", "no_parts", "no_text"}}
        \cup {[kind |-> "text", text |-> EncodeArray(arr)] :
                arr \in SeqsUpTo(ApiElems, MaxArr)}
        \cup {[kind |-> "text", text |-> <<Tok("x"), Tok("x")>>]}

DetectionResponse(success, objects, total_objects) ==
    [success |-> success, objects |-> objects, total_objects |-> total_objects]

create_detection_response_off_by_one(success, objects) ==
    IF success
    THEN DetectionResponse(TRUE, objects, Len(objects) + 1)
    ELSE DetectionResponse(FALSE, <<>>, 0)

create_detection_response(success, objects) ==
    IF success
    THEN DetectionResponse(TRUE, objects, Len(objects))
    ELSE DetectionResponse(FALSE, <<>>, 0)

\* detect_objects without the "if not detected_objects" branch
detect_objects_no_empty_check(api) ==
    IF api.kind = "raise"
    THEN create_detection_response(FALSE, <<>>)
    ELSE LET r == parse_gemini_response(api)
         IN IF r.raised
            THEN create_detection_response(FALSE, <<>>)
            ELSE create_detection_response(TRUE, r.objects)

\* detect_objects, from the API call's outcome on: lines 138-152
detect_objects(api) ==
    IF api.kind = "raise"
    THEN create_detection_response(FALSE, <<>>)
    ELSE LET r == parse_gemini_response(api)
         IN IF r.raised
            THEN create_detection_response(FALSE, <<>>)
            ELSE IF r.objects = <<>>
            THEN create_detection_response(FALSE, <<>>)
            ELSE create_detection_response(TRUE, r.objects)

\* the answer to a re-raised HTTPException: no handler is registered, the
\* framework sends the status with the exception's detail as the body
HTTPExceptionResponse(status_code, detail) ==
    [status |-> status_code, body |-> [detail |-> detail]]

Ok200(body) == [status |-> 200, body |-> body]

InitDetect ==
    /\ pc = "idle"
    /\ image = "none"
    /\ apiCalls = 0
    /\ apiResult = [kind |-> "none"]
    /\ httpResponse = <<>>
    /\ response = [kind |-> "no_candidates", text |-> <<>>]
    /\ parsed = Pending
    /\ InitIdleAssets

\* the request arrives; the handler awaits image.read()
ReceiveUpload ==
    /\ pc = "idle"
    /\ \E img \in Images : image' = img
    /\ pc' = "reading"
    /\ UNCHANGED <<apiCalls, apiResult, httpResponse, parseVars, assetVars>>

\* image.read() raises: the handler's "except Exception" answers
ReadFails ==
    /\ pc = "reading" /\ ~image.readable
    /\ httpResponse' = Append(httpResponse, Ok200(DetectionResponse(FALSE, <<>>, 0)))
    /\ pc' = "done"
    /\ UNCHANGED <<image, apiCalls, apiResult, parseVars, assetVars>>

\* validate_image fails: HTTPException(422) is raised and re-raised
RejectImage ==
    /\ pc = "reading" /\ image.readable /\ ~validate_image(image)
    /\ httpResponse' = Append(httpResponse,
                              HTTPExceptionResponse(422, "Invalid image format"))
    /\ pc' = "done"
    /\ UNCHANGED <<image, apiCalls, apiResult, parseVars, assetVars>>

\* validate_image passes: detect_objects opens the image and awaits the API
AcceptImage ==
    /\ pc = "reading" /\ image.readable /\ validate_image(image)
    /\ pc' = "calling"
    /\ UNCHANGED <<image, apiCalls, apiResult, httpResponse, parseVars, assetVars>>

\* a detect_objects that calls the API again after a failed call
CallApiRetrying ==
    /\ pc = "calling"
    /\ apiCalls < 2
    /\ apiCalls' = apiCalls + 1
    /\ \E r \in ApiResults :
          /\ apiResult' = r
          /\ pc' = IF r.kind = "raise" /\ apiCalls = 0 THEN "calling" ELSE "called"
    /\ UNCHANGED <<image, httpResponse, parseVars, assetVars>>

\* call_gemini_api: one call, which raises or returns a response
CallApi ==
    /\ pc = "calling"
    /\ apiCalls' = apiCalls + 1
    /\ \E r \in ApiResults : apiResult' = r
    /\ pc' = "called"
    /\ UNCHANGED <<image, httpResponse, parseVars, assetVars>>

\* the rest of detect_objects and the handler's return
Respond ==
    /\ pc = "called"
    /\ httpResponse' = Append(httpResponse, Ok200(detect_objects(apiResult)))
    /\ pc' = "done"
    /\ UNCHANGED <<image, apiCalls, apiResult, parseVars, assetVars>>

NextDetect ==
    \/ ReceiveUpload
    \/ ReadFails
    \/ RejectImage
    \/ AcceptImage
    \/ CallApi
    \/ Respond

SpecDetect == InitDetect /\ [][NextDetect]_vars

----------------------------------------------------------------------------
(* Generated assets: request_create_asset, get_created_asset, get_asset *)

\* get_origin_image, which create_asset calls for the image it sends to the
\* generation call, is not among the sources; it touches no state below.
\* Each handler is an "async def" without an await between its file
\* operations, so one handler's file operations are one step.  The reading
\* of datetime.now() is an input: the wall clock is not guaranteed to give
\* a new value at each reading.

NoFiles == [n \in {} |-> ""]

ImageData == {"imgA", "imgB"}

\* f"{asset_model}_{asset_type}_{datetime.now()}.jpg"
FileName(model, asset_type, now) == <<model, "_", asset_type, "_", now, ".jpg">>

StartsWith(name, prefix) ==
    Len(name) >= Len(prefix) /\ SubSeq(name, 1, Len(prefix)) = prefix

EndsWith(name, suffix) ==
    Len(name) >= Len(suffix)
    /\ SubSeq(name, Len(name) - Len(suffix) + 1, Len(name)) = suffix

b64encode(data) == <<"base64", data>>

\* every image payload of the model is three bytes long
SizeOf(data) == 3

AssetFile(filename, data) ==
    [filename |-> filename, content_base64 |-> b64encode(data), size |-> SizeOf(data)]

AssetResponse(success, file) == [success |-> success, file |-> file]

\* open(file_path, "wb") followed by write: creates the file or replaces
\* the content of an existing one
WriteFile(fs, name, data) ==
    [n \in DOMAIN fs \cup {name} |-> IF n = name THEN data ELSE fs[n]]

\* the filter of get_created_asset
MatchingFiles(fs, model, asset_type) ==
    {f \in DOMAIN fs :
        StartsWith(f, <<model, "_", asset_type>>) /\ EndsWith(f, <<".jpg">>)}

InitAssets ==
    /\ dirExists = FALSE
    /\ files = NoFiles
    /\ creates = 0
    /\ lastOp = [op |-> "none"]
    /\ response = [kind |-> "no_candidates", text |-> <<>>]
    /\ parsed = Pending
    /\ InitIdleDetect

\* POST /assets/create where the generation call raises, returns no
\* candidate or returns no inline image: AssetResponse(success=False)
CreateAssetFails ==
    /\ creates < MaxCreates
    /\ \E model \in PlasticType, asset_type \in AssetType,
          why \in {"raise", "no_candidates", "no_inline_data"} :
          lastOp' = [op |-> "create", model |-> model, asset_type |-> asset_type,
                     outcome |-> why, status |-> 200,
                     body |-> AssetResponse(FALSE, None)]
    /\ creates' = creates + 1
    /\ UNCHANGED <<dirExists, files, parseVars, detectVars>>

\* POST /assets/create where the generation call returns an image
CreateAsset ==
    /\ creates < MaxCreates
    /\ \E model \in PlasticType, asset_type \in AssetType,
          data \in ImageData, now \in 1..MaxTs :
          LET file_name == FileName(model, asset_type, now)
          IN /\ dirExists' = TRUE
             /\ files' = WriteFile(files, file_name, data)
             /\ lastOp' = [op |-> "create", model |-> model, asset_type |-> asset_type,
                           outcome |-> "image", status |-> 200,
                           body |-> AssetResponse(TRUE, AssetFile(file_name, data))]
    /\ creates' = creates + 1
    /\ UNCHANGED <<parseVars, detectVars>>

\* GET /asset/ while the directory does not exist
GetAssetNoDir ==
    /\ ~dirExists
    /\ \E model \in PlasticType, asset_type \in AssetType :
          lastOp' = [op |-> "get", model |-> model, asset_type |-> asset_type,
                     outcome |-> "no_dir", status |-> 200,
                     body |-> AssetResponse(TRUE, None)]
    /\ UNCHANGED <<dirExists, files, creates, parseVars, detectVars>>

\* GET /asset/ with no matching file: random.choice of an empty list raises
\* IndexError, outside the handler's try block
GetAssetNoMatch ==
    /\ dirExists
    /\ \E model \in PlasticType, asset_type \in AssetType :
          /\ MatchingFiles(files, model, asset_type) = {}
          /\ lastOp' = [op |-> "get", model |-> model, asset_type |-> asset_type,
                        outcome |-> "no_match", status |-> 500,
                        body |-> "Internal Server Error"]
    /\ UNCHANGED <<dirExists, files, creates, parseVars, detectVars>>

\* GET /asset/ with matching files: one of them, chosen at random
GetAssetFound ==
    /\ dirExists
    /\ \E model \in PlasticType, asset_type \in AssetType :
          \E asset_file \in MatchingFiles(files, model, asset_type) :
              lastOp' = [op |-> "get", model |-> model, asset_type |-> asset_type,
                         outcome |-> "found", status |-> 200,
                         body |-> AssetResponse(TRUE,
                                     AssetFile(asset_file, files[asset_file]))]
    /\ UNCHANGED <<dirExists, files, creates, parseVars, detectVars>>

NextAssets ==
    \/ CreateAssetFails
    \/ CreateAsset
    \/ GetAssetNoDir
    \/ GetAssetNoMatch
    \/ GetAssetFound

SpecAssets == InitAssets /\ [][NextAssets]_vars

----------------------------------------------------------------------------
(* Properties of the generated assets *)

\* C3: the Asset Picker answers "no asset" (HTTP 200, success, file None)
\* when the directory does not exist and when no file name matches.
C3_NoAssetIsSuccessShaped ==
    (lastOp.op = "get" /\ lastOp.outcome \in {"no_dir", "no_match"}) =>
        /\ lastOp.status = 200
        /\ lastOp.body = AssetResponse(TRUE, None)

\* C9: the asset directory is append-only: no step removes a file or
\* changes the content of a file that already exists.
C9_AppendOnly ==
    [][\A n \in DOMAIN files : n \in DOMAIN files' /\ files'[n] = files[n]]_vars

----------------------------------------------------------------------------
(* Properties of the extractor *)

IsObjTok(tok) == tok.t = "{}"

\* the decoded candidate objects of a text, in order
CandidatesOf(text) ==
    LET objs == SelectSeq(text, IsObjTok)
    IN [i \in 1..Len(objs) |-> objs[i].e]

\* the text is exactly a JSON array of objects
IsArrayText(resp) ==
    resp.kind = "text" /\ resp.text = EncodeArray(CandidatesOf(resp.text))

Range(s) == {s[i] : i \in 1..Len(s)}

\* the k-th smallest member of a set of integers
RECURSIVE Nth(_, _)
Nth(S, k) ==
    LET m == CHOOSE x \in S : \A y \in S : x <= y
    IN IF k = 1 THEN m ELSE Nth(S \ {m}, k - 1)

\* the objects expected from the candidates at the index set I, in index order
Expected(arr, I) ==
    [k \in 1..Cardinality(I) |-> DetectedObject(arr[Nth(I, k)])]

SchemaOk(e) ==
    /\ {"label", "confidence", "status", "box_2d"} \subseteq DOMAIN e
    /\ e["label"] \in PlasticType
    /\ IsNumber(e["confidence"])
    /\ e["status"] \in WasteStatus

AtLeastThreshold(e) == Float(e["confidence"]) >= 60

\* C2 (as amended): when every element of the decoded array validates, the
\* result is exactly the candidates with confidence >= 0.6, in their
\* original order; when some element fails validation the result is empty.
C2_ThresholdFilterOnValidArrays ==
    (parsed # Pending /\ IsArrayText(response)) =>
        LET arr == CandidatesOf(response.text)
            I == {i \in 1..Len(arr) : AtLeastThreshold(arr[i])}
        IN /\ ~parsed.raised
           /\ (\A i \in 1..Len(arr) : SchemaOk(arr[i]))
                 => parsed.objects = Expected(arr, I)
           /\ (\E i \in 1..Len(arr) : ~SchemaOk(arr[i]))
                 => parsed.objects = <<>>

\* C2 witness: a two-element array, the first below the threshold and
\* excluded, the second at the threshold and returned
C2_Witness ==
    /\ parsed # Pending /\ IsArrayText(response)
    /\ LET arr == CandidatesOf(response.text)
       IN /\ Len(arr) = 2
          /\ SchemaOk(arr[1]) /\ SchemaOk(arr[2])
          /\ ~AtLeastThreshold(arr[1]) /\ AtLeastThreshold(arr[2])
          /\ parsed.objects = <<DetectedObject(arr[2])>>

\* C2 as originally stated: every schema-satisfying candidate of the decoded
\* array with confidence >= 0.6 is in the result, whatever the other
\* elements of the array are.
C2_Original ==
    (parsed # Pending /\ IsArrayText(response)) =>
        LET arr == CandidatesOf(response.text)
            I == {i \in 1..Len(arr) : SchemaOk(arr[i]) /\ AtLeastThreshold(arr[i])}
        IN parsed.objects = Expected(arr, I)

\* the text contains "[" whitespace* "{" ... "}" whitespace* "]"
ContainsBracketedArray(text) ==
    \E i \in 1..Len(text), j \in 1..Len(text) :
        /\ i < j /\ text[i].t = "[" /\ text[j].t = "]"
        /\ \E p \in (i+1)..(j-1), q \in (i+1)..(j-1) :
              /\ p <= q
              /\ \A k \in (i+1)..(p-1) : text[k].t = " "
              /\ \A k \in (q+1)..(j-1) : text[k].t = " "
              /\ text[p].t \in {"{", "{}"}
              /\ text[q].t \in {"}", "{}"}
              /\ (p = q => text[p].t = "{}")

\* C6: for a response text with no bracketed-array-of-objects substring,
\* parse_gemini_response returns the empty sequence and does not raise.
C6_NoArrayYieldsEmpty ==
    (parsed # Pending /\ response.kind = "text"
        /\ ~ContainsBracketedArray(response.text))
    => (parsed.objects = <<>> /\ ~parsed.raised)

\* C6 witness: a parsed text that holds an opening bracket and a JSON
\* object but no bracketed array
C6_Witness ==
    /\ parsed # Pending /\ response.kind = "text"
    /\ ~ContainsBracketedArray(response.text)
    /\ \E i \in 1..Len(response.text), j \in 1..Len(response.text) :
          i < j /\ response.text[i].t = "[" /\ response.text[j].t = "{}"
    /\ parsed.objects = <<>>

\* what the optional fields are said to be: description and bounding box
OptionalFields == {"how_to_recycle", "box_2d"}

RequiredOk(e) ==
    /\ (Keys \ OptionalFields) \subseteq DOMAIN e
    /\ e["label"] \in PlasticType
    /\ IsNumber(e["confidence"])
    /\ e["status"] \in WasteStatus

\* C7: an element with valid label, confidence and status that omits
\* optional fields is accepted, the omitted fields being None.
C7_OptionalFieldsDefaultNone ==
    (parsed # Pending /\ IsArrayText(response)) =>
        LET arr == CandidatesOf(response.text)
        IN (Len(arr) = 1 /\ RequiredOk(arr[1]) /\ AtLeastThreshold(arr[1]))
              => parsed.objects = <<DetectedObject(arr[1])>>

\* C8 (as amended): validation is of the whole array: when any element of
\* a decoded array fails validation the result is empty (and nothing is
\* raised), even if other elements validate with confidence >= 0.6; when
\* all validate, every element with confidence >= 0.6 is returned.
C8_AllOrNothingValidation ==
    (parsed # Pending /\ IsArrayText(response)) =>
        LET arr == CandidatesOf(response.text)
            bad == {i \in 1..Len(arr) : ~SchemaOk(arr[i])}
            keep == {i \in 1..Len(arr) : AtLeastThreshold(arr[i])}
        IN /\ ~parsed.raised
           /\ bad # {} => parsed.objects = <<>>
           /\ bad = {} =>
                 /\ Len(parsed.objects) = Cardinality(keep)
                 /\ \A i \in keep : DetectedObject(arr[i]) \in Range(parsed.objects)

\* C8 witness: an array mixing a valid element of confidence >= 0.6 with
\* one whose label is no PlasticType; nothing is returned
C8_Witness ==
    /\ parsed # Pending /\ IsArrayText(response)
    /\ LET arr == CandidatesOf(response.text)
       IN /\ Len(arr) = 2
          /\ SchemaOk(arr[1]) /\ AtLeastThreshold(arr[1])
          /\ Keys \subseteq DOMAIN arr[2] /\ arr[2]["label"] \notin PlasticType
          /\ parsed.objects = <<>>

\* C8 as originally stated: failing elements are dropped one by one and
\* every valid element with confidence >= 0.6 is still returned.
C8_Original ==
    (parsed # Pending /\ IsArrayText(response)) =>
        LET arr == CandidatesOf(response.text)
        IN \A i \in 1..Len(arr) :
              (SchemaOk(arr[i]) /\ AtLeastThreshold(arr[i]))
                  => DetectedObject(arr[i]) \in Range(parsed.objects)

----------------------------------------------------------------------------
(* Properties of POST /detect *)

IsDetectionBody(b) == DOMAIN b = {"success", "objects", "total_objects"}

FailureBody == [success |-> FALSE, objects |-> <<>>, total_objects |-> 0]

\* C1: in every DetectionResponse POST /detect returns, total_objects equals
\* the length of the objects list.
C1_TotalObjectsIsLength ==
    \A i \in 1..Len(httpResponse) :
        IsDetectionBody(httpResponse[i].body) =>
            httpResponse[i].body.total_objects = Len(httpResponse[i].body.objects)

\* C1 witness: a successful detection answered with two objects
C1_Witness ==
    /\ pc = "done" /\ Len(httpResponse) = 1
    /\ IsDetectionBody(httpResponse[1].body)
    /\ httpResponse[1].body.success
    /\ Len(httpResponse[1].body.objects) = 2
    /\ httpResponse[1].body.total_objects = 2

\* some element of the API's text is a valid object of confidence >= 0.6
SomeCandidateQualifies(api) ==
    /\ api.kind = "text"
    /\ \E e \in Range(CandidatesOf(api.text)) : SchemaOk(e) /\ AtLeastThreshold(e)

\* C4: for an upload that passes validation, whatever the external API does,
\* the answer is HTTP 200, and it is {success:false, objects:[],
\* total_objects:0} unless at least one object survives parsing and filtering.
C4_DetectionFailureIs200Failure ==
    (pc = "done" /\ image.readable /\ validate_image(image)) =>
        /\ Len(httpResponse) = 1
        /\ httpResponse[1].status = 200
        /\ IsDetectionBody(httpResponse[1].body)
        /\ httpResponse[1].body.objects = <<>> => httpResponse[1].body = FailureBody
        /\ ~SomeCandidateQualifies(apiResult) => httpResponse[1].body = FailureBody

\* C4 witness: the API returned a well-formed array whose only object is
\* below the threshold, and the request was answered 200 with the failure body
C4_Witness ==
    /\ pc = "done" /\ image.readable /\ validate_image(image)
    /\ apiResult.kind = "text"
    /\ Len(CandidatesOf(apiResult.text)) = 1
    /\ SchemaOk(CandidatesOf(apiResult.text)[1])
    /\ ~AtLeastThreshold(CandidatesOf(apiResult.text)[1])
    /\ httpResponse = <<[status |-> 200, body |-> FailureBody]>>

\* C5: an upload that fails image validation is answered HTTP 422 with the
\* structured body {detail, error_code, error_message}, error_code being 422.
C5_Structured422Body ==
    (pc = "done" /\ image.readable /\ ~validate_image(image)) =>
        /\ Len(httpResponse) = 1
        /\ httpResponse[1].status = 422
        /\ DOMAIN httpResponse[1].body = {"detail", "error_code", "error_message"}
        /\ httpResponse[1].body.error_code = 422

\* C10: a request calls the external API at most once, and only after the
\* upload passed validation; a failed call is not retried and the request
\* ends with exactly one response, the failure result.
C10_SingleCallNoRetry ==
    /\ apiCalls <= 1
    /\ Len(httpResponse) <= 1
    /\ apiCalls = 1 => (image.readable /\ validate_image(image))
    /\ (pc = "done" <=> Len(httpResponse) = 1)
    /\ (pc = "done" /\ apiResult.kind = "raise") =>
          /\ apiCalls = 1
          /\ httpResponse = <<[status |-> 200, body |-> FailureBody]>>

\* C10 witness: the single API call raised and the request is answered
C10_Witness ==
    /\ pc = "done" /\ apiResult.kind = "raise" /\ apiCalls = 1
    /\ Len(httpResponse) = 1

====
